---- MODULE Spec2Model ----
\* Verification model of the waluigi experiment planner (src/src/structs.rs):
\* the field type system, parameter validation, parameter expansion and the
\* dependency-linking pass Experiment::plan.
EXTENDS Naturals, Sequences, FiniteSets, TLC

VARIABLES
    programs,       \* plan argument: program name -> Program
    jobs,           \* Experiment.jobs
    wrap,           \* build property: TRUE when usize overflow wraps (release), FALSE when it panics (debug)
    idx,            \* position of the `for job in &self.jobs` loop (number of jobs planned)
    id,             \* the id counter captured by jobify
    jobmap,         \* jobmap: job.run -> sequence of JobInstance
    result,         \* outcome of the call: [kind, arg]
    output,         \* the Vec<JobInstance> returned on success
    created,        \* history: every JobInstance built by jobify, in creation order, with its job index
    log,            \* history: per planned job, what the job was expanded from
    vprog,          \* validation harness: the Program being validated
    vparams,        \* validation harness: the settings / data map
    vres,           \* validation harness: the result of the validate call
    mtype,          \* matches harness: the FieldType
    mdata,          \* matches harness: the FieldData
    mres,           \* matches harness: the result of FieldType::matches
    vsetting,       \* vectorize harness: the FieldSetting
    vecres,         \* vectorize harness: the outcome of FieldSetting::vectorize
    bjob,           \* batch harness: the Job
    bres            \* batch harness: the outcome of Job::batch

vars == <<programs, jobs, wrap, idx, id, jobmap, result, output, created, log,
          vprog, vparams, vres, mtype, mdata, mres, vsetting, vecres, bjob, bres>>

planVars == <<programs, jobs, wrap, idx, id, jobmap, result, output, created, log>>
validateVars == <<vprog, vparams, vres>>
matchVars == <<mtype, mdata, mres>>
expandVars == <<vsetting, vecres, bjob, bres>>

----------------------------------------------------------------------------
\* Bounds of the model.

\* Longest experiment (number of jobs) explored.
MaxJobs == 3

\* Largest value of the machine word (usize::MAX scaled down).
UIntMax == 7

----------------------------------------------------------------------------
\* Generic helpers for HashMap and Vec values.

EmptyMap == <<>>

\* HashMap::extend / insert: entries of q replace entries of p.
Extend(p, q) == [k \in (DOMAIN p) \cup (DOMAIN q) |-> IF k \in DOMAIN q THEN q[k] ELSE p[k]]

Insert(p, k, v) == [x \in (DOMAIN p) \cup {k} |-> IF x = k THEN v ELSE p[x]]

Remove(p, k) == [x \in (DOMAIN p) \ {k} |-> p[x]]

\* All iteration orders a HashMap with key set S can have.
Orders(S) == {s \in [1..Cardinality(S) -> S] : \A i, j \in 1..Cardinality(S) : i # j => s[i] # s[j]}

RECURSIVE Concat(_)
Concat(ss) == IF ss = <<>> THEN <<>> ELSE Head(ss) \o Concat(Tail(ss))

RECURSIVE Product(_)
Product(ns) == IF ns = <<>> THEN 1 ELSE Head(ns) * Product(Tail(ns))

\* A 64-bit usize is held exactly, as four digits in base 2^16 with the least
\* significant digit first.
Base == 65536

\* The usize with value n, for n below 2^31.
USize(n) == <<n % Base, n \div Base, 0, 0>>

\* digits * n + carry as the digits of the exact number: one more digit than
\* `digits` has, the last one holding whatever lies past them (0 < n < 2^15).
RECURSIVE MulDigits(_, _, _)
MulDigits(digits, n, carry) ==
    IF digits = <<>> THEN <<carry>>
    ELSE LET p == Head(digits) * n + carry
         IN  <<p % Base>> \o MulDigits(Tail(digits), n, p \div Base)

\* The digits of a usize.
WordDigits == 4

\* The exact number `digits` is past isize::MAX = 2^63 - 1: it has something
\* beyond the word, or the top bit of the word set.
PastIsizeMax(digits) ==
    digits[WordDigits + 1] # 0 \/ digits[WordDigits] >= Base \div 2

\* Option<usize>, Option<String> and Option<Vec<String>> without a value.
None == [is_some |-> FALSE, v |-> USize(0)]
NoOption == [is_some |-> FALSE, v |-> ""]
NoOnEach == [is_some |-> FALSE, v |-> <<>>]
Some(x) == [is_some |-> TRUE, v |-> x]

----------------------------------------------------------------------------
\* FieldData.  Strings are opaque numbered tokens; a Float holds its value in halves
\* (v = 2 is 1.0, v = 3 is 1.5), so that integral and non-integral floats and
\* exact float addition are both represented.

Future == [k |-> "Future", v |-> 0]
Str(s) == [k |-> "Str", v |-> s]
Float(h) == [k |-> "Float", v |-> h]
UInt(n) == [k |-> "UInt", v |-> n]
Bool(b) == [k |-> "Bool", v |-> IF b THEN 1 ELSE 0]

\* f.trunc() == f
IsIntegral(h) == h % 2 = 0

FieldTypes == {"Str", "Path", "UInt", "Float", "Bool"}

\* FieldType::matches with the Future arm accepting Path too (used to show
\* the truth table depends on that arm).
MatchesFuturePath(self, data) ==
    CASE data.k = "Str" -> self = "Str" \/ self = "Path"
      [] data.k = "UInt" -> self = "UInt"
      [] data.k = "Float" -> self = "Float" \/ (self = "UInt" /\ IsIntegral(data.v))
      [] data.k = "Bool" -> self = "Bool"
      [] data.k = "Future" -> self = "Str" \/ self = "Path"

\* FieldType::matches
Matches(self, data) ==
    CASE data.k = "Str" -> self = "Str" \/ self = "Path"
      [] data.k = "UInt" -> self = "UInt"
      [] data.k = "Float" -> self = "Float" \/ (self = "UInt" /\ IsIntegral(data.v))
      [] data.k = "Bool" -> self = "Bool"
      [] data.k = "Future" -> self = "Str"

\* FieldSetting
Range(from, to, step) == [t |-> "Range", from |-> from, to |-> to, step |-> step]
List(data) == [t |-> "List", data |-> data]
Value(v) == [t |-> "Value", v |-> v]

\* FieldType::matches_setting
MatchesSetting(self, data) ==
    CASE data.t = "Range" ->
            /\ (self = "UInt" \/ self = "Float")
            /\ Matches(self, data.from)
            /\ Matches(self, data.to)
            /\ Matches(self, data.step)
      [] data.t = "List" -> \A i \in 1..Len(data.data) : Matches(self, data.data[i])
      [] data.t = "Value" -> Matches(self, data.v)

----------------------------------------------------------------------------
\* Field, Program and the command builder.

Field(dtype, option) == [dtype |-> dtype, option |-> option]

\* Field::fill_with.  The rendered text is kept symbolically: "plain" is
\* datum.to_string(), "empty" the empty string, "option" the option template
\* verbatim, "subst" the template with its first <...> replaced by the datum.
FillWith(field, datum) ==
    IF Matches(field.dtype, datum)
    THEN IF field.option.is_some
         THEN CASE datum = Bool(FALSE) -> [ok |-> TRUE, form |-> "empty", datum |-> datum]
                [] datum = Bool(TRUE) -> [ok |-> TRUE, form |-> "option", datum |-> datum]
                [] OTHER -> [ok |-> TRUE, form |-> "subst", datum |-> datum]
         ELSE [ok |-> TRUE, form |-> "plain", datum |-> datum]
    ELSE [ok |-> FALSE, form |-> "FieldMismatch", datum |-> datum]

\* Program::cmd.  The command line is kept as the substitutions made into the
\* format string (positional) and the fragments appended to it (appended);
\* the order of the appended fragments follows HashMap iteration and is not
\* represented.
Cmd(prog, params) ==
    LET used == {f \in DOMAIN params :
                    f \in DOMAIN prog.fields /\ Matches(prog.fields[f].dtype, params[f])}
        fills == [f \in used |-> FillWith(prog.fields[f], params[f])]
    IN  IF \E f \in used : ~fills[f].ok
        THEN [ok |-> FALSE, positional |-> EmptyMap, appended |-> {}]
        ELSE [ok |-> TRUE,
              positional |-> [f \in {g \in used : ~prog.fields[g].option.is_some} |-> fills[f]],
              appended |-> {<<f, fills[f]>> : f \in {g \in used : prog.fields[g].option.is_some}}]

Ok == [kind |-> "Ok", arg |-> ""]
Err(kind, arg) == [kind |-> kind, arg |-> arg]

\* Program::validate_parameter_data without the missing-parameter test.
RECURSIVE ValidateParameterDataNoMissing(_, _, _)
ValidateParameterDataNoMissing(self, params, order) ==
    IF order = <<>> THEN Ok
    ELSE LET field == Head(order)
             details == self.fields[field]
         IN  IF field \notin DOMAIN params
             THEN ValidateParameterDataNoMissing(self, params, Tail(order))
             ELSE IF ~Matches(details.dtype, params[field])
             THEN Err("InvalidParameterData", field)
             ELSE ValidateParameterDataNoMissing(self, params, Tail(order))

\* Program::validate_parameter_data; `order` is the order in which
\* `for (field, details) in &self.fields` visits the fields still to check.
RECURSIVE ValidateParameterData(_, _, _)
ValidateParameterData(self, params, order) ==
    IF order = <<>> THEN Ok
    ELSE LET field == Head(order)
             details == self.fields[field]
         IN  IF field \notin DOMAIN params /\ ~details.option.is_some
             THEN Err("MissingParameter", field)
             ELSE IF field \notin DOMAIN params
             THEN ValidateParameterData(self, params, Tail(order))
             ELSE IF ~Matches(details.dtype, params[field])
             THEN Err("InvalidParameterData", field)
             ELSE ValidateParameterData(self, params, Tail(order))

\* Program::validate_parameters that accepts a map lacking a required field.
RECURSIVE ValidateParametersNoMissing(_, _, _)
ValidateParametersNoMissing(self, params, order) ==
    IF order = <<>> THEN Ok
    ELSE LET field == Head(order)
             details == self.fields[field]
         IN  IF field \notin DOMAIN params
             THEN ValidateParametersNoMissing(self, params, Tail(order))
             ELSE IF ~MatchesSetting(details.dtype, params[field])
             THEN Err("InvalidParameterSetting", field)
             ELSE ValidateParametersNoMissing(self, params, Tail(order))

\* Program::validate_parameters
RECURSIVE ValidateParameters(_, _, _)
ValidateParameters(self, params, order) ==
    IF order = <<>> THEN Ok
    ELSE LET field == Head(order)
             details == self.fields[field]
         IN  IF field \notin DOMAIN params /\ ~details.option.is_some
             THEN Err("MissingParameter", field)
             ELSE IF field \notin DOMAIN params
             THEN ValidateParameters(self, params, Tail(order))
             ELSE IF ~MatchesSetting(details.dtype, params[field])
             THEN Err("InvalidParameterSetting", field)
             ELSE ValidateParameters(self, params, Tail(order))

----------------------------------------------------------------------------
\* Parameter expansion.

\* The `while cur <= end { push; cur += step }` loop of the UInt arm.  `seen`
\* holds the values cur has had: meeting one again means the loop never ends.
\* usize addition past UIntMax panics in a build with overflow checks and
\* wraps in one without.
RECURSIVE UIntLoop(_, _, _, _, _, _)
UIntLoop(cur, end, step, range, seen, wraps) ==
    IF ~(cur <= end) THEN [st |-> "ok", v |-> range]
    ELSE IF cur \in seen THEN [st |-> "diverge", v |-> <<>>]
    ELSE IF cur + step > UIntMax /\ ~wraps THEN [st |-> "panic", v |-> <<>>]
    ELSE UIntLoop((cur + step) % (UIntMax + 1), end, step,
                  Append(range, UInt(cur)), seen \cup {cur}, wraps)

\* The loop of the Float arm (values in halves; addition is exact on them).
RECURSIVE FloatLoop(_, _, _, _)
FloatLoop(cur, end, step, range) ==
    IF ~(cur <= end) THEN [st |-> "ok", v |-> range]
    ELSE IF step = 0 THEN [st |-> "diverge", v |-> <<>>]
    ELSE FloatLoop(cur + step, end, step, Append(range, Float(cur)))

\* FieldSetting::vectorize.  st = "panic" stands for unwrap_usize /
\* unwrap_float / unreachable!() panicking, "diverge" for a loop that never
\* leaves `while cur <= end`.
Vectorize(self, wraps) ==
    CASE self.t = "Range" ->
            (CASE self.from.k = "UInt" ->
                    IF self.to.k # "UInt" \/ self.step.k # "UInt"
                    THEN [st |-> "panic", v |-> <<>>]
                    ELSE UIntLoop(self.from.v, self.to.v, self.step.v, <<>>, {}, wraps)
               [] self.from.k = "Float" ->
                    IF self.to.k # "Float" \/ self.step.k # "Float"
                    THEN [st |-> "panic", v |-> <<>>]
                    ELSE FloatLoop(self.from.v, self.to.v, self.step.v, <<>>)
               [] OTHER -> [st |-> "panic", v |-> <<>>])
      [] self.t = "List" -> [st |-> "ok", v |-> self.data]
      [] self.t = "Value" -> [st |-> "ok", v |-> <<self.v>>]

\* The first loop of Job::batch: vectorize every parameter, in iteration
\* order; the first one that does not return ends the call.
RECURSIVE VectorizeAll(_, _, _, _)
VectorizeAll(parameters, order, param_sets, wraps) ==
    IF order = <<>> THEN [st |-> "ok", v |-> param_sets]
    ELSE LET vec == Vectorize(parameters[Head(order)], wraps)
         IN  IF vec.st # "ok" THEN [st |-> vec.st, v |-> EmptyMap]
             ELSE VectorizeAll(parameters, Tail(order),
                               Insert(param_sets, Head(order), vec.v), wraps)

\* subproducts.iter().flat_map(|prod| params[key].iter().map(|datum| prod + {key: datum}))
RECURSIVE FlatMapKey(_, _, _)
FlatMapKey(subproducts, key, data) ==
    IF subproducts = <<>> THEN <<>>
    ELSE [i \in 1..Len(data) |-> Insert(Head(subproducts), key, data[i])]
         \o FlatMapKey(Tail(subproducts), key, data)

\* fn prod inside Job::batch; `order` is the order in which keys().next()
\* hands out the keys of the successively smaller maps.
RECURSIVE Prod(_, _)
Prod(params, order) ==
    IF order = <<>> THEN <<EmptyMap>>
    ELSE LET key == Head(order)
             subproducts == Prod(Remove(params, key), Tail(order))
         IN  FlatMapKey(subproducts, key, params[key])

RepetitionKey(run) == "repetition-" \o run

\* size_of::<HashMap<String, FieldData>>() on a 64-bit target.
MapBytes == 48

\* `.take(self.repetitions.unwrap_or(1) * rl)` followed by collect().  The
\* product is exact in MulDigits; it is past usize::MAX when its digit beyond
\* the word is not 0: a build with overflow checks panics there, one without
\* keeps the four digits of the word.  collect() allocates a Vec for the count
\* at once, unless the count is 0: it panics with "capacity overflow" when
\* count * MapBytes is past isize::MAX, and otherwise asks the allocator for
\* the buffer.  Whether the allocator grants it is decided by the machine
\* (`grants`); when it refuses, the process aborts.  No machine modelled here
\* grants a buffer of 2^31 maps (96 GiB) or more.  A granted count is the
\* number n of maps collected.
TakeCount(reps, rl, wraps, grants) ==
    LET product == MulDigits(reps, rl, 0)
        count == SubSeq(product, 1, WordDigits)
    IN  IF product[WordDigits + 1] # 0 /\ ~wraps THEN [st |-> "panic", n |-> 0]
        ELSE IF PastIsizeMax(MulDigits(count, MapBytes, 0))
             THEN [st |-> "panic", n |-> 0]
        ELSE IF count = USize(0) THEN [st |-> "ok", n |-> 0]
        ELSE IF ~grants \/ count[4] # 0 \/ count[3] # 0 \/ count[2] >= Base \div 2
             THEN [st |-> "abort", n |-> 0]
        ELSE [st |-> "ok", n |-> count[1] + Base * count[2]]

\* Job::batch.  vorder is the iteration order of self.parameters, porder the
\* key order met by prod.  The maps are the first `count` items of
\* res.into_iter().cycle().enumerate(), item i tagged with i / rl.
Batch(self, vorder, porder, wraps, grants) ==
    LET sets == VectorizeAll(self.parameters, vorder, EmptyMap, wraps)
    IN  IF sets.st # "ok" THEN [st |-> sets.st, v |-> <<>>]
        ELSE LET res == Prod(sets.v, porder)
                 rl == Len(res)
                 reps == IF self.repetitions.is_some THEN self.repetitions.v ELSE USize(1)
                 count == TakeCount(reps, rl, wraps, grants)
             IN  IF count.st # "ok" THEN [st |-> count.st, v |-> <<>>]
                 ELSE [st |-> "ok",
                       v |-> [n \in 1..count.n |->
                                 Insert(res[((n - 1) % rl) + 1], RepetitionKey(self.run),
                                        UInt((n - 1) \div rl))]]

----------------------------------------------------------------------------
\* Experiment::plan.

Job(run, parameters, repetitions, on_each) ==
    [run |-> run, parameters |-> parameters, repetitions |-> repetitions, on_each |-> on_each]

\* Job::has_depends
HasDepends(self) == self.on_each.is_some

\* The threads argument of plan, copied into every instance.
Threads == 1

\* `id += 1` left out of jobify.
NextIdStuck(n) == n

\* `id += 1` in jobify
NextId(n) == n + 1

\* The jobify closure: builds the instance carrying the current id.  The
\* counter is advanced by the caller through NextId when ok.
Jobify(prog, params, deps, cur_id) ==
    LET c == Cmd(prog, params)
    IN  IF ~c.ok THEN [ok |-> FALSE, err |-> Err("FieldMismatch", ""), inst |-> EmptyMap]
        ELSE [ok |-> TRUE, err |-> Ok,
              inst |-> [id |-> cur_id,
                        command |-> [positional |-> c.positional, appended |-> c.appended],
                        params |-> params,
                        log |-> "",
                        threads |-> Threads,
                        depends |-> deps]]

\* .map(..jobify..).collect::<Result<_>>()?  over the (params, deps) pairs:
\* instances are built left to right until the first error.  With validate
\* set, validate_parameter_data runs before jobify on each pair.
RECURSIVE CollectJobs(_, _, _, _, _, _)
CollectJobs(prog, batch, cur_id, validate, forder, insts) ==
    IF batch = <<>> THEN [res |-> Ok, insts |-> insts, id |-> cur_id]
    ELSE LET item == Head(batch)
             val == IF validate THEN ValidateParameterData(prog, item.params, forder) ELSE Ok
             j == Jobify(prog, item.params, item.deps, cur_id)
         IN  IF val.kind # "Ok" THEN [res |-> val, insts |-> insts, id |-> cur_id]
             ELSE IF ~j.ok THEN [res |-> j.err, insts |-> insts, id |-> cur_id]
             ELSE CollectJobs(prog, Tail(batch), NextId(cur_id), validate, forder,
                              Append(insts, j.inst))

\* The inner closure with the Future placeholders left out.
CrossOneNoFuture(item, dep_insts, outputs) ==
    [i \in 1..Len(dep_insts) |->
        [params |-> Extend(item.params, dep_insts[i].params),
         deps |-> Append(item.deps, dep_insts[i].id)]]

\* The inner closure pushing the id after the dependency's.
CrossOneNextId(item, dep_insts, outputs) ==
    [i \in 1..Len(dep_insts) |->
        [params |-> Extend(Extend(item.params, dep_insts[i].params),
                           [k \in outputs |-> Future]),
         deps |-> Append(item.deps, dep_insts[i].id + 1)]]

\* The inner closure pairing the assignment with the first instance only.
CrossOneFirstOnly(item, dep_insts, outputs) ==
    [i \in 1..(IF dep_insts = <<>> THEN 0 ELSE 1) |->
        [params |-> Extend(Extend(item.params, dep_insts[i].params),
                           [k \in outputs |-> Future]),
         deps |-> Append(item.deps, dep_insts[i].id)]]

\* jobmap[dep].iter().map(|dep_params| ..): one (params, par_deps) pair
\* crossed with every instance recorded for the dependency.
CrossOne(item, dep_insts, outputs) ==
    [i \in 1..Len(dep_insts) |->
        [params |-> Extend(Extend(item.params, dep_insts[i].params),
                           [k \in outputs |-> Future]),
         deps |-> Append(item.deps, dep_insts[i].id)]]

\* batch.into_iter().flat_map(..).collect()
CrossDep(batch, dep_insts, outputs) ==
    Concat([i \in 1..Len(batch) |-> CrossOne(batch[i], dep_insts, outputs)])

\* The dependency loop passing over a name that is not in jobmap.
RECURSIVE FoldDepsSkipUnknown(_, _, _, _)
FoldDepsSkipUnknown(batch, deps, jm, progs) ==
    IF deps = <<>> THEN [res |-> Ok, batch |-> batch]
    ELSE LET dep == Head(deps)
         IN  IF dep \notin DOMAIN jm
             THEN FoldDepsSkipUnknown(batch, Tail(deps), jm, progs)
             ELSE FoldDepsSkipUnknown(CrossDep(batch, jm[dep], DOMAIN progs[dep].outputs),
                                      Tail(deps), jm, progs)

\* `for dep in deps { .. }`
RECURSIVE FoldDeps(_, _, _, _)
FoldDeps(batch, deps, jm, progs) ==
    IF deps = <<>> THEN [res |-> Ok, batch |-> batch]
    ELSE LET dep == Head(deps)
         IN  IF dep \notin DOMAIN jm
             THEN [res |-> Err("UnknownDependency", dep), batch |-> <<>>]
             ELSE FoldDeps(CrossDep(batch, jm[dep], DOMAIN progs[dep].outputs),
                           Tail(deps), jm, progs)

Failed(res, cur_id, insts) ==
    [res |-> res, id |-> cur_id, insts |-> insts, own |-> <<>>, dep_ids |-> <<>>]

Aborted(st) == Err(IF st = "panic" THEN "Panic" ELSE IF st = "abort" THEN "Abort" ELSE "Diverge", "")

\* One iteration of `for job in &self.jobs`.  forder is the iteration order of
\* the program's fields, vorder and porder the orders met inside batch, grants
\* whether the allocator grants the buffer batch collects into.
\* Besides the outcome, the result carries what the history variables record:
\* the job's own batch and, per listed dependency, the ids recorded for it.
JobOutcome(progs, jm, cur_id, job, wraps, grants, forder, vorder, porder) ==
    IF job.run \notin DOMAIN progs
    THEN Failed(Err("InvalidProgram", job.run), cur_id, <<>>)
    ELSE IF ~HasDepends(job)
    THEN LET val == ValidateParameters(progs[job.run], job.parameters, forder)
             b == Batch(job, vorder, porder, wraps, grants)
             c == CollectJobs(progs[job.run],
                              [i \in 1..Len(b.v) |-> [params |-> b.v[i], deps |-> <<>>]],
                              cur_id, FALSE, forder, <<>>)
         IN  IF val.kind # "Ok" THEN Failed(val, cur_id, <<>>)
             ELSE IF b.st # "ok" THEN Failed(Aborted(b.st), cur_id, <<>>)
             ELSE [res |-> c.res, id |-> c.id, insts |-> c.insts, own |-> b.v, dep_ids |-> <<>>]
    ELSE LET deps == job.on_each.v
             b == Batch(job, vorder, porder, wraps, grants)
             f == FoldDeps([i \in 1..Len(b.v) |-> [params |-> b.v[i], deps |-> <<>>]],
                           deps, jm, progs)
             c == CollectJobs(progs[job.run], f.batch, cur_id, TRUE, forder, <<>>)
         IN  IF b.st # "ok" THEN Failed(Aborted(b.st), cur_id, <<>>)
             ELSE IF f.res.kind # "Ok" THEN Failed(f.res, cur_id, <<>>)
             ELSE [res |-> c.res, id |-> c.id, insts |-> c.insts, own |-> b.v,
                   dep_ids |-> [m \in 1..Len(deps) |->
                                   IF deps[m] \in DOMAIN jm
                                   THEN [i \in 1..Len(jm[deps[m]]) |-> jm[deps[m]][i].id]
                                   ELSE <<>>]]

Running == [kind |-> "Running", arg |-> ""]
Idle == [kind |-> "Idle", arg |-> ""]

\* The body of the job loop for the next job of the experiment.
PlanJob ==
    /\ result = Running
    /\ idx < Len(jobs)
    /\ LET job == jobs[idx + 1]
           fields == IF job.run \in DOMAIN programs
                     THEN DOMAIN programs[job.run].fields ELSE {}
       IN  \E forder \in Orders(fields) :
           \E vorder \in Orders(DOMAIN job.parameters) :
           \E porder \in Orders(DOMAIN job.parameters) :
           \E grants \in BOOLEAN :
           \E o \in {JobOutcome(programs, jobmap, id, job, wrap, grants, forder, vorder, porder)} :
                  /\ id' = o.id
                  /\ created' = created \o [i \in 1..Len(o.insts) |->
                                               [inst |-> o.insts[i], job |-> idx + 1]]
                  /\ IF o.res.kind = "Ok"
                     THEN /\ jobmap' = Insert(jobmap, job.run, o.insts)
                          /\ idx' = idx + 1
                          /\ log' = Append(log, [own |-> o.own, dep_ids |-> o.dep_ids,
                                                 insts |-> o.insts])
                          /\ UNCHANGED result
                     ELSE /\ result' = o.res
                          /\ UNCHANGED <<jobmap, idx, log>>
    /\ UNCHANGED <<programs, jobs, wrap, output>>
    /\ UNCHANGED <<validateVars, matchVars, expandVars>>

\* jobmap.into_iter().flat_map(|(_, x)| x).collect(): the instance lists are
\* concatenated in the iteration order of jobmap.
Flatten(jm, korder) == Concat([i \in 1..Len(korder) |-> jm[korder[i]]])

\* The end of plan: all jobs planned, the flattened jobmap is returned.
Finish ==
    /\ result = Running
    /\ idx = Len(jobs)
    /\ \E korder \in Orders(DOMAIN jobmap) : output' = Flatten(jobmap, korder)
    /\ result' = Ok
    /\ UNCHANGED <<programs, jobs, wrap, idx, id, jobmap, created, log>>
    /\ UNCHANGED <<validateVars, matchVars, expandVars>>

----------------------------------------------------------------------------
\* Inputs of the planning pass.

ProgA ==
    [name |-> "A",
     outputs |-> [o \in {"x"} |-> "msg"],
     fields |-> [f \in {"n", "v"} |->
                    IF f = "n" THEN Field("UInt", NoOption) ELSE Field("Bool", Some("--v"))]]

ProgB ==
    [name |-> "B",
     outputs |-> [o \in {"y"} |-> "msg"],
     fields |-> [f \in {"x"} |-> Field("Str", NoOption)]]

ProgramTable == [p \in {"A", "B"} |-> IF p = "A" THEN ProgA ELSE ProgB]

Map1(k, v) == [x \in {k} |-> v]

JobChoices ==
    { Job("A", Map1("n", Range(UInt(1), UInt(2), UInt(1))), None, NoOnEach),
      Job("A", Extend(Map1("n", Value(UInt(1))), Map1("v", Value(Bool(TRUE)))), Some(USize(2)), NoOnEach),
      Job("A", EmptyMap, None, NoOnEach),
      Job("A", Map1("n", Range(Float(2), UInt(3), UInt(1))), None, NoOnEach),
      Job("A", Map1("n", Value(Str(1))), None, NoOnEach),
      Job("A", Map1("n", List(<<>>)), None, NoOnEach),
      Job("A", EmptyMap, None, Some(<<"A">>)),
      Job("A", EmptyMap, None, Some(<<"B">>)),
      Job("B", Map1("x", Value(Str(1))), None, NoOnEach),
      Job("B", Map1("x", Value(UInt(3))), Some(USize(2)), Some(<<"A">>)),
      Job("B", Map1("x", Value(UInt(3))), None, Some(<<>>)),
      Job("B", EmptyMap, None, Some(<<"A", "B">>)),
      Job("B", Map1("q", Range(Str(1), Str(1), Str(1))), None, Some(<<"A">>)),
      Job("Z", EmptyMap, None, Some(<<"Q">>)) }

Experiments == UNION {[1..n -> JobChoices] : n \in 0..MaxJobs}

IdleValidate == vprog = EmptyMap /\ vparams = EmptyMap /\ vres = Idle
IdleMatch == mtype = "Str" /\ mdata = Future /\ mres = "idle"
NotCalled == [st |-> "idle", v |-> <<>>]
IdleExpand == vsetting = EmptyMap /\ vecres = NotCalled /\ bjob = EmptyMap /\ bres = NotCalled

Init ==
    /\ programs = ProgramTable
    /\ jobs \in Experiments
    /\ wrap \in BOOLEAN
    /\ idx = 0
    /\ id = 0
    /\ jobmap = EmptyMap
    /\ result = Running
    /\ output = <<>>
    /\ created = <<>>
    /\ log = <<>>
    /\ IdleValidate
    /\ IdleMatch
    /\ IdleExpand

Next == PlanJob \/ Finish

Spec == Init /\ [][Next]_vars

----------------------------------------------------------------------------
\* Properties of the planning pass.

Done == result.kind \notin {"Running", "Idle"}

\* The job an instance of the history was built for, and its listed dependencies.
JobOf(p) == jobs[created[p].job]
OnEachOf(i) == IF jobs[i].on_each.is_some THEN jobs[i].on_each.v ELSE <<>>

\* Positions of the history holding the instance with id d.
CreatedWithId(d) == {q \in 1..Len(created) : created[q].inst.id = d}

\* C1: after a successful plan, every id in the depends of an instance built
\* in the pass is the id of an instance built earlier in the pass (so it is
\* smaller than the instance's own id) for the job named at that position of
\* the instance's job's on_each.
C1_DependsReferEarlier ==
    result = Ok =>
        \A p \in 1..Len(created) :
            \A m \in 1..Len(created[p].inst.depends) :
                LET d == created[p].inst.depends[m]
                IN  /\ d < created[p].inst.id
                    /\ m <= Len(OnEachOf(created[p].job))
                    /\ \E q \in 1..(p - 1) :
                          /\ created[q].inst.id = d
                          /\ JobOf(q).run = OnEachOf(created[p].job)[m]

C1_Witness ==
    /\ result = Ok
    /\ \E p \in 1..Len(created) : Len(created[p].inst.depends) = 2

\* C2: the ids of the instances built in a pass are 0, 1, 2, ... in creation
\* order, whatever job they were built for: no id is shared and a later
\* instance has a larger id.
C2_IdsCountUp ==
    /\ \A p \in 1..Len(created) : created[p].inst.id = p - 1
    /\ id = Len(created)

C2_Witness ==
    /\ Len(created) >= 4
    /\ \E p, q \in 1..Len(created) :
          /\ created[p].job # created[q].job
          /\ created[p].inst.depends = <<>>
          /\ created[q].inst.depends # <<>>

RequiredFields(prog) == {f \in DOMAIN prog.fields : ~prog.fields[f].option.is_some}

\* C3: every instance returned by a successful plan has a params entry for
\* every field its program declares without an option template.
C3_RequiredFieldsPresent ==
    result = Ok =>
        \A i \in 1..Len(output) :
            \E p \in 1..Len(created) :
                /\ created[p].inst = output[i]
                /\ RequiredFields(programs[JobOf(p).run]) \subseteq DOMAIN output[i].params

C3_Witness ==
    /\ result = Ok
    /\ \E i, j \in 1..Len(output) :
          /\ output[i].depends = <<>>
          /\ output[j].depends # <<>>
          /\ "n" \in DOMAIN output[j].params

\* All ways of picking one element from each sequence of seqs.
RECURSIVE MaxLen(_)
MaxLen(seqs) ==
    IF seqs = <<>> THEN 0
    ELSE IF Len(Head(seqs)) > MaxLen(Tail(seqs)) THEN Len(Head(seqs)) ELSE MaxLen(Tail(seqs))
Choices(seqs) ==
    {c \in [1..Len(seqs) -> 1..MaxLen(seqs)] : \A m \in 1..Len(seqs) : c[m] \in 1..Len(seqs[m])}

\* Keys a dependency instance hands to its dependents: its params and the
\* output names of its program.
SuppliedBy(d) ==
    UNION {(DOMAIN created[q].inst.params) \cup (DOMAIN programs[JobOf(q).run].outputs) :
              q \in CreatedWithId(d)}

\* C4: a planned job with on_each = [d1..dk] has (size of its own batch) times
\* the instance counts recorded for d1..dk instances; each depends list has k
\* ids, the m-th one recorded for dm; every choice of one recorded instance
\* per dependency occurs once for each own assignment, and the instance at
\* position p stems from own assignment p div (product of the counts).
C4_CrossProduct ==
    \A i \in 1..Len(log) :
        jobs[i].on_each.is_some =>
            LET L == log[i]
                k == Len(jobs[i].on_each.v)
                cnt == Product([m \in 1..k |-> Len(L.dep_ids[m])])
            IN  /\ Len(L.dep_ids) = k
                /\ Len(L.insts) = Len(L.own) * cnt
                /\ \A p \in 1..Len(L.insts) :
                      /\ Len(L.insts[p].depends) = k
                      /\ \A m \in 1..k :
                            \E n \in 1..Len(L.dep_ids[m]) :
                               L.insts[p].depends[m] = L.dep_ids[m][n]
                      /\ LET own == L.own[((p - 1) \div cnt) + 1]
                             supplied == UNION {SuppliedBy(L.insts[p].depends[m]) : m \in 1..k}
                         IN  \A key \in DOMAIN own :
                                /\ key \in DOMAIN L.insts[p].params
                                /\ key \notin supplied => L.insts[p].params[key] = own[key]
                /\ \A c \in Choices(L.dep_ids) :
                      Cardinality({p \in 1..Len(L.insts) :
                                      L.insts[p].depends = [m \in 1..k |-> L.dep_ids[m][c[m]]]})
                          = Len(L.own)

C4_Witness ==
    \E i \in 1..Len(log) :
        /\ jobs[i].on_each.is_some
        /\ Len(jobs[i].on_each.v) >= 1
        /\ Len(log[i].own) = 2
        /\ Len(log[i].dep_ids[1]) = 2
        /\ Len(log[i].insts) = 4

\* C5 as stated: in every instance of a job with on_each, every output name
\* of every listed dependency's program is bound to Future.
C5_OutputsAlwaysFuture ==
    \A i \in 1..Len(log) :
        jobs[i].on_each.is_some =>
            \A m \in 1..Len(jobs[i].on_each.v) :
                \A key \in DOMAIN programs[jobs[i].on_each.v[m]].outputs :
                    \A p \in 1..Len(log[i].insts) :
                        /\ key \in DOMAIN log[i].insts[p].params
                        /\ log[i].insts[p].params[key] = Future

\* C5 amended: every output name of the m-th listed dependency's program is a
\* key of the instance's params, and it is bound to Future unless the
\* instance of a later-listed dependency it was crossed with carries that key
\* in its own params (the later dependency wins).
C5_OutputsFutureUnlessLaterDep ==
    \A i \in 1..Len(log) :
        jobs[i].on_each.is_some =>
            \A m \in 1..Len(jobs[i].on_each.v) :
                \A key \in DOMAIN programs[jobs[i].on_each.v[m]].outputs :
                    \A p \in 1..Len(log[i].insts) :
                        LET inst == log[i].insts[p]
                        IN  /\ key \in DOMAIN inst.params
                            /\ \/ inst.params[key] = Future
                               \/ \E j \in (m + 1)..Len(inst.depends) :
                                     \E q \in CreatedWithId(inst.depends[j]) :
                                        /\ key \in DOMAIN created[q].inst.params
                                        /\ inst.params[key] = created[q].inst.params[key]

C5_Witness ==
    \E i \in 1..Len(log) :
        /\ jobs[i].on_each.is_some
        /\ jobs[i].on_each.v = <<"A">>
        /\ "x" \in DOMAIN jobs[i].parameters
        /\ \E p \in 1..Len(log[i].insts) : log[i].insts[p].params["x"] = Future

\* Job positions whose on_each names a job that no earlier job of the
\* experiment runs.
UnplannedDeps(i) ==
    {m \in 1..Len(OnEachOf(i)) : \A k \in 1..(i - 1) : jobs[k].run # OnEachOf(i)[m]}
JobsWithUnplannedDep == {i \in 1..Len(jobs) : UnplannedDeps(i) # {}}
FirstWithUnplannedDep == CHOOSE i \in JobsWithUnplannedDep : \A j \in JobsWithUnplannedDep : i <= j

\* C6 as stated: when some job's on_each names a job not planned earlier, the
\* call ends with UnknownDependency.
C6_AlwaysUnknownDependency ==
    (Done /\ JobsWithUnplannedDep # {}) => result.kind = "UnknownDependency"

\* C6 amended: when some job's on_each names a job not planned earlier, plan
\* never returns successfully; it ends with UnknownDependency naming the first
\* unplanned name of the first such job, unless the pass ended before that
\* lookup: at an earlier job, or at that job with InvalidProgram or inside
\* its batch().
C6_NeverSucceeds ==
    (Done /\ JobsWithUnplannedDep # {}) =>
        LET bad == FirstWithUnplannedDep
            first == CHOOSE m \in UnplannedDeps(bad) : \A n \in UnplannedDeps(bad) : m <= n
        IN  /\ result # Ok
            /\ output = <<>>
            /\ idx + 1 <= bad
            /\ idx + 1 = bad =>
                  \/ result = Err("UnknownDependency", OnEachOf(bad)[first])
                  \/ result.kind \in {"InvalidProgram", "Panic", "Abort", "Diverge"}
            /\ result.kind = "UnknownDependency" => idx + 1 = bad

C6_Witness ==
    /\ result.kind = "UnknownDependency"
    /\ result.arg = "B"
    /\ idx = 1
    /\ jobs[2].on_each.v = <<"A", "B">>

\* C7: a successful plan returns every instance built in the pass exactly
\* once, so the output is as long as the sum of the instances built per job.
C7_OutputHoldsEveryInstance ==
    result = Ok =>
        /\ Len(output) = Len(created)
        /\ \A p \in 1..Len(created) :
              Cardinality({i \in 1..Len(output) : output[i] = created[p].inst}) = 1

TypedErrors ==
    {"InvalidProgram", "MissingParameter", "InvalidParameterSetting",
     "InvalidParameterData", "UnknownDependency", "FieldMismatch"}

\* C8: a plan call that does not succeed ends by returning one of the typed
\* errors and no instance list; it never ends in any other way.
C8_OnlyTypedErrors ==
    Done => /\ result.kind \in TypedErrors \cup {"Ok"}
            /\ result.kind # "Ok" => output = <<>>

\* C12: in the list a successful plan returns, every id in an instance's
\* depends is the id of an instance of that same list.
C12_DependsInOutput ==
    result = Ok =>
        \A i \in 1..Len(output) :
            \A m \in 1..Len(output[i].depends) :
                \E j \in 1..Len(output) : output[j].id = output[i].depends[m]

----------------------------------------------------------------------------
\* Program::validate_parameters and Program::validate_parameter_data called
\* on their own, over small programs and maps.

Pending == [kind |-> "Pending", arg |-> ""]

\* Largest number of fields of a validated program.
MaxFields == 2

FieldNames == {"a", "b", "c"}

FieldChoices == {Field(t, o) : t \in {"UInt", "Str"}, o \in {NoOption, Some("--o <o>")}}

ValidatedPrograms ==
    {[name |-> "P", outputs |-> EmptyMap, fields |-> fs] :
        fs \in UNION {[ks -> FieldChoices] :
                         ks \in {k \in SUBSET FieldNames : Cardinality(k) \in 1..MaxFields}}}

DataChoices == {UInt(1), Str(1), Future}
SettingChoices == {Value(UInt(1)), Value(Str(1)), Range(UInt(1), UInt(2), UInt(1))}

ValidatedMaps ==
    {[form |-> "settings", map |-> m] : m \in UNION {[ks -> SettingChoices] : ks \in SUBSET {"a", "b"}}}
    \cup
    {[form |-> "data", map |-> m] : m \in UNION {[ks -> DataChoices] : ks \in SUBSET {"a", "b"}}}

IdlePlan ==
    /\ programs = EmptyMap
    /\ jobs = <<>>
    /\ wrap = FALSE
    /\ idx = 0
    /\ id = 0
    /\ jobmap = EmptyMap
    /\ result = Idle
    /\ output = <<>>
    /\ created = <<>>
    /\ log = <<>>

InitValidate ==
    /\ vprog \in ValidatedPrograms
    /\ vparams \in ValidatedMaps
    /\ vres = Pending
    /\ IdlePlan
    /\ IdleMatch
    /\ IdleExpand

\* A call of validate_parameters; the fields come out in some order.
CallValidateParameters ==
    /\ vres = Pending
    /\ vparams.form = "settings"
    /\ \E order \in Orders(DOMAIN vprog.fields) :
          vres' = ValidateParameters(vprog, vparams.map, order)
    /\ UNCHANGED <<vprog, vparams, planVars, matchVars, expandVars>>

\* A call of validate_parameter_data.
CallValidateParameterData ==
    /\ vres = Pending
    /\ vparams.form = "data"
    /\ \E order \in Orders(DOMAIN vprog.fields) :
          vres' = ValidateParameterData(vprog, vparams.map, order)
    /\ UNCHANGED <<vprog, vparams, planVars, matchVars, expandVars>>

NextValidate == CallValidateParameters \/ CallValidateParameterData

SpecValidate == InitValidate /\ [][NextValidate]_vars

Validated == vres.kind \notin {"Idle", "Pending"}

\* Required fields of the validated program that the map has no key for.
MissingRequired == {f \in RequiredFields(vprog) : f \notin DOMAIN vparams.map}

\* Fields whose entry in the map does not fit the field's type.
IllTyped ==
    {f \in (DOMAIN vprog.fields) \cap (DOMAIN vparams.map) :
        IF vparams.form = "settings"
        THEN ~MatchesSetting(vprog.fields[f].dtype, vparams.map[f])
        ELSE ~Matches(vprog.fields[f].dtype, vparams.map[f])}

\* C9 as stated: when the map has no key for a required field, validation
\* ends with MissingParameter.
C9_AlwaysMissingParameter ==
    (Validated /\ MissingRequired # {}) => vres.kind = "MissingParameter"

\* C9 amended: when the map has no key for a required field, validation never
\* returns Ok; it fails with MissingParameter for such a field, unless a field
\* with an ill-typed entry is visited first, and then it fails with
\* InvalidParameterSetting (validate_parameters) or InvalidParameterData
\* (validate_parameter_data) for that field.
C9_NeverPasses ==
    (Validated /\ MissingRequired # {}) =>
        \/ vres.kind = "MissingParameter" /\ vres.arg \in MissingRequired
        \/ /\ vres.kind = (IF vparams.form = "settings" THEN "InvalidParameterSetting"
                                                        ELSE "InvalidParameterData")
           /\ vres.arg \in IllTyped

C9_Witness ==
    /\ Validated
    /\ MissingRequired # {}
    /\ IllTyped # {}
    /\ vres.kind = "MissingParameter"
    /\ vparams.form = "settings"

----------------------------------------------------------------------------
\* FieldType::matches called on its own, over every type and kind of datum.

\* Largest Float (in halves) and UInt handed to matches.
MaxDatum == 4

MatchedData ==
    {Future, Str(0), Str(1), Bool(TRUE), Bool(FALSE)}
    \cup {Float(h) : h \in 0..MaxDatum}
    \cup {UInt(n) : n \in 0..MaxDatum}

InitMatches ==
    /\ mtype \in FieldTypes
    /\ mdata \in MatchedData
    /\ mres = "pending"
    /\ IdlePlan
    /\ IdleValidate
    /\ IdleExpand

CallMatches ==
    /\ mres = "pending"
    /\ mres' = IF Matches(mtype, mdata) THEN "true" ELSE "false"
    /\ UNCHANGED <<mtype, mdata, planVars, validateVars, expandVars>>

NextMatches == CallMatches

SpecMatches == InitMatches /\ [][NextMatches]_vars

\* The truth table of the type system, by type, with Path taking Future.
TableWithPathFuture(t, d) ==
    \/ t \in {"Str", "Path"} /\ d.k = "Str"
    \/ t = "UInt" /\ (d.k = "UInt" \/ (d.k = "Float" /\ d.v % 2 = 0))
    \/ t = "Float" /\ d.k = "Float"
    \/ t = "Bool" /\ d.k = "Bool"
    \/ t \in {"Str", "Path"} /\ d.k = "Future"

\* The truth table with only Str taking Future.
TableStrFuture(t, d) ==
    \/ t \in {"Str", "Path"} /\ d.k = "Str"
    \/ t = "UInt" /\ (d.k = "UInt" \/ (d.k = "Float" /\ d.v % 2 = 0))
    \/ t = "Float" /\ d.k = "Float"
    \/ t = "Bool" /\ d.k = "Bool"
    \/ t = "Str" /\ d.k = "Future"

\* C10 as stated: matches is true exactly for Str/Path with Str, UInt with
\* UInt or integral Float, Float with Float, Bool with Bool, and Str/Path
\* with Future.
C10_TableWithPathFuture ==
    mres \in {"true", "false"} => (mres = "true" <=> TableWithPathFuture(mtype, mdata))

\* C10 amended: matches is true exactly for Str/Path with Str, UInt with UInt
\* or integral Float, Float with Float, Bool with Bool, and Str (not Path)
\* with Future.
C10_TableStrFuture ==
    mres \in {"true", "false"} => (mres = "true" <=> TableStrFuture(mtype, mdata))

C10_Witness ==
    /\ mtype = "Path"
    /\ mdata = Future
    /\ mres = "false"

----------------------------------------------------------------------------
\* FieldSetting::vectorize called on its own, over every UInt Range of the
\* machine word, in a build with and without overflow checks.

Called == [st |-> "pending", v |-> <<>>]

UIntRanges ==
    {Range(UInt(from), UInt(to), UInt(step)) :
        from \in 0..UIntMax, to \in 0..UIntMax, step \in 0..UIntMax}

InitVectorize ==
    /\ vsetting \in UIntRanges
    /\ wrap \in BOOLEAN
    /\ vecres = Called
    /\ bjob = EmptyMap
    /\ bres = NotCalled
    /\ programs = EmptyMap
    /\ jobs = <<>>
    /\ idx = 0
    /\ id = 0
    /\ jobmap = EmptyMap
    /\ result = Idle
    /\ output = <<>>
    /\ created = <<>>
    /\ log = <<>>
    /\ IdleValidate
    /\ IdleMatch

\* A call of vectorize.
CallVectorize ==
    /\ vecres = Called
    /\ vecres' = Vectorize(vsetting, wrap)
    /\ UNCHANGED <<vsetting, bjob, bres, planVars, validateVars, matchVars>>

NextVectorize == CallVectorize

SpecVectorize == InitVectorize /\ [][NextVectorize]_vars

\* C13: for every Range of UInt data that FieldType::UInt.matches_setting
\* accepts, the vectorize call returns a (finite) sequence.
C13_VectorizeReturns ==
    (vecres # Called /\ vecres # NotCalled /\ MatchesSetting("UInt", vsetting))
        => vecres.st = "ok"

----------------------------------------------------------------------------
\* Job::batch called on its own, over jobs with up to three parameters.

\* Largest ordinary repetitions value of a job handed to batch.
MaxReps == 2

\* Repetitions in the upper reaches of the word: 2^31, 2^58, 2^63 and 2^63 + 1.
LargeReps == {<<0, 32768, 0, 0>>, <<0, 0, 0, 1024>>, <<0, 0, 0, 32768>>, <<1, 0, 0, 32768>>}

\* Parameter names; the last one is the key batch itself inserts for run "A".
BatchKeys == {"a", "b", RepetitionKey("A")}

BatchSettings ==
    {Value(UInt(1)), List(<<UInt(1), UInt(2)>>), List(<<>>),
     Range(UInt(1), UInt(3), UInt(1)), Range(Float(1), Float(2), Float(1))}

\* The number of values a setting stands for; none of BatchSettings depends
\* on the overflow behaviour.
CardinalityOf(setting) == Len(Vectorize(setting, FALSE).v)

RECURSIVE CardinalityProduct(_, _)
CardinalityProduct(parameters, keys) ==
    IF keys = {} THEN 1
    ELSE LET key == CHOOSE x \in keys : TRUE
         IN  CardinalityOf(parameters[key]) * CardinalityProduct(parameters, keys \ {key})

\* Jobs handed to batch.
BatchJobs ==
    {Job("A", ps, reps, NoOnEach) :
        ps \in UNION {[ks -> BatchSettings] : ks \in SUBSET BatchKeys},
        reps \in {None} \cup {Some(USize(r)) : r \in 0..MaxReps} \cup {Some(r) : r \in LargeReps}}

InitBatch ==
    /\ bjob \in BatchJobs
    /\ wrap \in BOOLEAN
    /\ bres = Called
    /\ vsetting = EmptyMap
    /\ vecres = NotCalled
    /\ programs = EmptyMap
    /\ jobs = <<>>
    /\ idx = 0
    /\ id = 0
    /\ jobmap = EmptyMap
    /\ result = Idle
    /\ output = <<>>
    /\ created = <<>>
    /\ log = <<>>
    /\ IdleValidate
    /\ IdleMatch

\* A call of batch; the parameters and the keys inside prod come out in some
\* order.
CallBatch ==
    /\ bres = Called
    /\ \E vorder \in Orders(DOMAIN bjob.parameters) :
       \E porder \in Orders(DOMAIN bjob.parameters) :
       \E grants \in BOOLEAN :
          bres' = Batch(bjob, vorder, porder, wrap, grants)
    /\ UNCHANGED <<bjob, vsetting, vecres, planVars, validateVars, matchVars>>

NextBatch == CallBatch

SpecBatch == InitBatch /\ [][NextBatch]_vars

\* The values a setting stands for.
ValuesOf(setting) == {Vectorize(setting, wrap).v[i] : i \in 1..Len(Vectorize(setting, wrap).v)}

RepetitionsOf(job) == IF job.repetitions.is_some THEN job.repetitions.v ELSE USize(1)

BatchReturned == bres.st = "ok"
BatchCalled == bres # Called /\ bres # NotCalled

\* Each returned map has one entry per parameter name, holding one of that
\* setting's values, and the map at 0-indexed position i binds
\* "repetition-{run}" to UInt(i div R).
MapsWellFormed(R) ==
    LET tag == RepetitionKey(bjob.run)
    IN  \A n \in 1..Len(bres.v) :
           /\ DOMAIN bres.v[n] = (DOMAIN bjob.parameters) \cup {tag}
           /\ \A f \in (DOMAIN bjob.parameters) \ {tag} :
                 bres.v[n][f] \in ValuesOf(bjob.parameters[f])
           /\ bres.v[n][tag] = UInt((n - 1) \div R)

\* C11: a batch call on a job whose settings vectorize returns
\* r * c1 * ... * cn maps (r the repetitions, 1 when absent; ci the number of
\* values of the i-th setting); each map has one entry per parameter name, and
\* the map at 0-indexed position i binds "repetition-{run}" to
\* UInt(i div (c1 * ... * cn)).  The two numbers are compared digit by digit.
C11_BatchSizeAndTags ==
    BatchCalled =>
        LET R == CardinalityProduct(bjob.parameters, DOMAIN bjob.parameters)
        IN  /\ BatchReturned
            /\ USize(Len(bres.v)) \o <<0>> = MulDigits(RepetitionsOf(bjob), R, 0)
            /\ MapsWellFormed(R)

====
